---- MODULE Spec2Model ----
(***************************************************************************)
(* Model of KudExtract (src/src/KudExtract.py): the pipeline that turns    *)
(* the XML layout of a bank statement into expense records.                *)
(*                                                                         *)
(* A string is a sequence of one-character strings, so that strip(), the   *)
(* regular expressions and the tokenizer are computed character by         *)
(* character.  A float is the exact decimal it was parsed from             *)
(* ([neg, ip, fp]: sign, integer digits without leading zeros, fraction    *)
(* digits without trailing zeros); comparison is numeric, as Python's.     *)
(* Python rounds the decimal to the nearest double, which keeps the order  *)
(* of the values and, up to 15 significant digits, the decimal itself.     *)
(* A token of a line is [isnum, num, str]: a float or a string.            *)
(* A dict is the sequence of its [key, line] entries, in insertion order.  *)
(***************************************************************************)
EXTENDS Integers, Sequences, FiniteSets, TLC

VARIABLES pc, xml, lines, data, grouped, raw, line, calls

vars == <<pc, xml, lines, data, grouped, raw, line, calls>>

(***************************************************************************)
(* Characters                                                              *)
(***************************************************************************)
DigitChars == <<"0", "1", "2", "3", "4", "5", "6", "7", "8", "9">>

DigitSet == {"0", "1", "2", "3", "4", "5", "6", "7", "8", "9"}

IsDigit(c) == c \in DigitSet

DigitVal(c) == (CHOOSE i \in 1..10 : DigitChars[i] = c) - 1

Letters == {"a", "b", "c", "d", "e", "f", "g", "h", "i", "j", "k", "l", "m",
            "n", "o", "p", "q", "r", "s", "t", "u", "v", "w", "x", "y", "z",
            "A", "B", "C", "D", "E", "F", "G", "H", "I", "J", "K", "L", "M",
            "N", "O", "P", "Q", "R", "S", "T", "U", "V", "W", "X", "Y", "Z"}

\* \s of the patterns and the whitespace str.strip() removes
IsSpace(c) == c \in {" ", "\t", "\n"}

\* \w of the tokenizer
IsWord(c) == IsDigit(c) \/ c \in Letters \/ c = "_"

AllSpace(s) == \A i \in 1..Len(s) : IsSpace(s[i])

AllDigits(s) == \A i \in 1..Len(s) : IsDigit(s[i])

Sub(s, a, b) == SubSeq(s, a, b)

\* str.strip(): leading and trailing whitespace removed
RECURSIVE LStrip(_)
LStrip(s) == IF s # <<>> /\ IsSpace(Head(s)) THEN LStrip(Tail(s)) ELSE s

RECURSIVE RStrip(_)
RStrip(s) ==
    IF s # <<>> /\ IsSpace(s[Len(s)]) THEN RStrip(Sub(s, 1, Len(s) - 1)) ELSE s

Strip(s) == RStrip(LStrip(s))

\* str.replace(old, new) for a one-character old; new is a string
RECURSIVE Replace(_, _, _)
Replace(s, old, new) ==
    IF s = <<>> THEN <<>>
    ELSE (IF Head(s) = old THEN new ELSE <<Head(s)>>) \o Replace(Tail(s), old, new)

(***************************************************************************)
(* The compiled patterns                                                   *)
(***************************************************************************)
\* the length of the longest prefix of s made of characters in cs
RECURSIVE Run(_, _)
Run(s, cs) == IF s # <<>> /\ Head(s) \in cs THEN 1 + Run(Tail(s), cs) ELSE 0

\* (?:\.\d{3})*(?:,\d{2})? over the whole of s
RECURSIVE GroupsAndDecimals(_)
GroupsAndDecimals(s) ==
    \/ s = <<>>
    \/ Len(s) = 3 /\ s[1] = "," /\ AllDigits(Sub(s, 2, 3))
    \/ /\ Len(s) >= 4
       /\ s[1] = "."
       /\ AllDigits(Sub(s, 2, 4))
       /\ GroupsAndDecimals(Sub(s, 5, Len(s)))

\* (?:\.\d{2,3})*(?:,\d{2})? over the whole of s
RECURSIVE GroupsAndDecimalsLax(_)
GroupsAndDecimalsLax(s) ==
    \/ GroupsAndDecimals(s)
    \/ /\ Len(s) >= 3
       /\ s[1] = "."
       /\ AllDigits(Sub(s, 2, 3))
       /\ GroupsAndDecimalsLax(Sub(s, 4, Len(s)))
    \/ /\ Len(s) >= 4
       /\ s[1] = "."
       /\ AllDigits(Sub(s, 2, 4))
       /\ GroupsAndDecimalsLax(Sub(s, 5, Len(s)))

\* NumericPart with groups of two or three digits: \d{1,3}(?:\.\d{2,3})*(?:,\d{2})?
NumericPartLax(s) ==
    LET n == Run(s, DigitSet)
    IN  n \in 1..3 /\ GroupsAndDecimalsLax(Sub(s, n + 1, Len(s)))

\* group 1 of number_pattern over the whole of s: \d{1,3}(?:\.\d{3})*(?:,\d{2})?
\* (what follows \d{1,3} is no digit, so \d{1,3} takes the whole leading run)
NumericPart(s) ==
    LET n == Run(s, DigitSet)
    IN  n \in 1..3 /\ GroupsAndDecimals(Sub(s, n + 1, Len(s)))

\* \s?([+-]?) over the whole of s
SignCore(s) ==
    \/ s = <<>>
    \/ Len(s) = 1 /\ (IsSpace(s[1]) \/ s[1] \in {"+", "-"})
    \/ Len(s) = 2 /\ IsSpace(s[1]) /\ s[2] \in {"+", "-"}

\* the tail of number_pattern over the whole of s: \s?([+-]?)$, where $ matches
\* at the end and before a final newline
SignPart(s) ==
    \/ SignCore(s)
    \/ s # <<>> /\ s[Len(s)] = "\n" /\ SignCore(Sub(s, 1, Len(s) - 1))

\* where group 1 of number_pattern ends on s: what follows it holds no digit,
\* "." or ",", so it is the longest prefix made of these
NumericEnd(s) == Run(s, DigitSet \cup {".", ","})

\* number_pattern.match(s) is not None
number_pattern(s) ==
    /\ NumericPart(Sub(s, 1, NumericEnd(s)))
    /\ SignPart(Sub(s, NumericEnd(s) + 1, Len(s)))

\* match.groups(): the numeric part and the sign ("" when there is none)
NumberGroups(s) ==
    LET rest == Sub(s, NumericEnd(s) + 1, Len(s))
        signs == {i \in 1..Len(rest) : rest[i] \in {"+", "-"}}
    IN  [numeric_part |-> Sub(s, 1, NumericEnd(s)),
         sign |-> IF signs = {} THEN <<>> ELSE <<rest[CHOOSE i \in signs : TRUE]>>]

\* useless_tokens_pattern.match(s) is not None: ^\s*\+\s*$
useless_tokens_pattern(s) ==
    \E i \in 1..Len(s) :
        /\ s[i] = "+"
        /\ AllSpace(Sub(s, 1, i - 1))
        /\ AllSpace(Sub(s, i + 1, Len(s)))

\* date_pattern.match(s) is not None: \d{2}\.\d{2}\s*$, anchored at the start
date_pattern(s) ==
    /\ Len(s) >= 5
    /\ AllDigits(Sub(s, 1, 2))
    /\ s[3] = "."
    /\ AllDigits(Sub(s, 4, 5))
    /\ AllSpace(Sub(s, 6, Len(s)))

\* tokenizer.tokenize(s): the maximal runs of \w characters, in order
RECURSIVE Tokenize(_, _)
Tokenize(s, cur) ==
    IF s = <<>> THEN (IF cur = <<>> THEN <<>> ELSE <<cur>>)
    ELSE IF IsWord(Head(s)) THEN Tokenize(Tail(s), Append(cur, Head(s)))
    ELSE (IF cur = <<>> THEN <<>> ELSE <<cur>>) \o Tokenize(Tail(s), <<>>)

\* ' '.join(words)
RECURSIVE Join(_)
Join(words) ==
    IF words = <<>> THEN <<>>
    ELSE IF Len(words) = 1 THEN words[1]
    ELSE words[1] \o <<" ">> \o Join(Tail(words))

(***************************************************************************)
(* Floats                                                                  *)
(***************************************************************************)
RECURSIVE DropLeadingZeros(_)
DropLeadingZeros(d) ==
    IF d # <<>> /\ Head(d) = 0 THEN DropLeadingZeros(Tail(d)) ELSE d

RECURSIVE DropTrailingZeros(_)
DropTrailingZeros(d) ==
    IF d # <<>> /\ d[Len(d)] = 0
    THEN DropTrailingZeros(Sub(d, 1, Len(d) - 1)) ELSE d

DigitsOf(s) == [i \in 1..Len(s) |-> DigitVal(s[i])]

\* float(s) for s = digits, or digits "." digits
FloatOf(s) ==
    LET dots == {i \in 1..Len(s) : s[i] = "."}
        dot == IF dots = {} THEN Len(s) + 1 ELSE CHOOSE i \in dots : TRUE
    IN  [neg |-> FALSE,
         ip |-> DropLeadingZeros(DigitsOf(Sub(s, 1, dot - 1))),
         fp |-> DropTrailingZeros(DigitsOf(Sub(s, dot + 1, Len(s))))]

\* -number
Negate(x) == [x EXCEPT !.neg = ~x.neg]

IsZero(x) == x.ip = <<>> /\ x.fp = <<>>

Zeros(n) == [i \in 1..n |-> 0]

RECURSIVE LexLess(_, _)
LexLess(a, b) ==
    /\ a # <<>>
    /\ \/ Head(a) < Head(b)
       \/ Head(a) = Head(b) /\ LexLess(Tail(a), Tail(b))

\* |a| < |b|
MagLess(a, b) ==
    \/ Len(a.ip) < Len(b.ip)
    \/ /\ Len(a.ip) = Len(b.ip)
       /\ LET n == IF Len(a.fp) > Len(b.fp) THEN Len(a.fp) ELSE Len(b.fp)
          IN  LexLess(a.ip \o a.fp \o Zeros(n - Len(a.fp)),
                      b.ip \o b.fp \o Zeros(n - Len(b.fp)))

\* a < b on numbers (-0.0 and 0.0 are equal)
NumLess(a, b) ==
    LET sa == IF IsZero(a) THEN 0 ELSE IF a.neg THEN -1 ELSE 1
        sb == IF IsZero(b) THEN 0 ELSE IF b.neg THEN -1 ELSE 1
    IN  IF sa # sb THEN sa < sb
        ELSE IF sa = 1 THEN MagLess(a, b)
        ELSE IF sa = -1 THEN MagLess(b, a)
        ELSE FALSE

\* a == b on numbers
NumEq(a, b) == ~NumLess(a, b) /\ ~NumLess(b, a)

\* 10**20, the start value of smallest_number
smallest_number_init == [neg |-> FALSE, ip |-> <<1>> \o Zeros(20), fp |-> <<>>]

(***************************************************************************)
(* Tokens                                                                  *)
(***************************************************************************)
Num(x) == [isnum |-> TRUE, num |-> x, str |-> <<>>]

Text(s) == [isnum |-> FALSE, num |-> [neg |-> FALSE, ip |-> <<>>, fp |-> <<>>], str |-> s]

\* isinstance(token, (int, float))
IsNumeric(token) == token.isnum

(***************************************************************************)
(* Token Normalizer: the four passes of __clean_lines                      *)
(***************************************************************************)
\* ParseToken with the pattern matched against the token as it is, not stripped
ParseTokenNoStrip(token) ==
    IF number_pattern(token.str)
    THEN LET g == NumberGroups(token.str)
             numeric_part ==
                 Replace(Replace(g.numeric_part, ".", <<>>), ",", <<".">>)
             number == FloatOf(numeric_part)
         IN  Num(IF g.sign = <<"-">> THEN Negate(number) ELSE number)
    ELSE token

\* the body of __parse_numbers' loop for a string token
ParseToken(token) ==
    LET stripped == Strip(token.str)
    IN  IF number_pattern(stripped)
        THEN LET g == NumberGroups(stripped)
                 numeric_part ==
                     Replace(Replace(g.numeric_part, ".", <<>>), ",", <<".">>)
                 number == FloatOf(numeric_part)
             IN  Num(IF g.sign = <<"-">> THEN Negate(number) ELSE number)
        ELSE token

\* token.strip() of a float raises AttributeError
ParseNumbersRaises(ln) == \E i \in 1..Len(ln) : IsNumeric(ln[i])

\* __parse_numbers(line), when it returns
ParseNumbers(ln) == [i \in 1..Len(ln) |-> ParseToken(ln[i])]

\* __clean_date(line)
CleanDate(ln) ==
    [i \in 1..Len(ln) |->
        IF IsNumeric(ln[i]) THEN ln[i] ELSE Text(Strip(ln[i].str))]

\* the tokens __remove_useless_tokens keeps
Useful(token) == IsNumeric(token) \/ ~useless_tokens_pattern(token.str)

\* __remove_useless_tokens returning the line it was given
RemoveUselessTokensKeepAll(ln) == ln

\* __remove_useless_tokens(line)
RemoveUselessTokens(ln) == SelectSeq(ln, Useful)

\* __clean_text(line)
CleanText(ln) ==
    [i \in 1..Len(ln) |->
        IF IsNumeric(ln[i]) THEN ln[i]
        ELSE IF date_pattern(ln[i].str) THEN ln[i]
        ELSE Text(Join(Tokenize(ln[i].str, <<>>)))]

\* the body of __clean_lines' loop for one key
CleanLine(ln) == CleanText(RemoveUselessTokens(CleanDate(ParseNumbers(ln))))

\* __clean_lines(lines): a dict is the sequence of its [key, line] entries, in
\* insertion order
CleanLines(d) ==
    [i \in 1..Len(d) |-> [key |-> d[i].key, line |-> CleanLine(d[i].line)]]

(***************************************************************************)
(* Line Filter, Token Filter, Record Builder                               *)
(***************************************************************************)
\* sum(isinstance(item, (int, float)) for item in line)
num_numbers(ln) == Cardinality({i \in 1..Len(ln) : IsNumeric(ln[i])})

\* KeepLine with the threshold at one number
KeepLineOne(entry) == num_numbers(entry.line) >= 1

\* if num_numbers >= 2
KeepLine(entry) == num_numbers(entry.line) >= 2

\* clean_lines[key] = line[1:], for the lines kept
DropFirstToken(entry) == [entry EXCEPT !.line = Tail(@)]

\* __filter_lines storing each kept line without its first token
FilterLinesDropFirst(d) ==
    LET kept == SelectSeq(d, KeepLine)
    IN  [i \in 1..Len(kept) |-> DropFirstToken(kept[i])]

\* __filter_lines(lines)
FilterLines(d) == SelectSeq(d, KeepLine)

\* smallest_number after the tokens of ln, starting from acc
RECURSIVE Smallest(_, _)
Smallest(ln, acc) ==
    IF ln = <<>> THEN acc
    ELSE IF IsNumeric(Head(ln)) /\ NumLess(Head(ln).num, acc)
    THEN Smallest(Tail(ln), Head(ln).num)
    ELSE Smallest(Tail(ln), acc)

\* Unique without the "not token in clean_line" test
RECURSIVE UniqueNoTest(_, _)
UniqueNoTest(ln, acc) ==
    IF ln = <<>> THEN acc
    ELSE IF IsNumeric(Head(ln)) THEN UniqueNoTest(Tail(ln), acc)
    ELSE UniqueNoTest(Tail(ln), Append(acc, Head(ln)))

\* clean_line after the tokens of ln, starting from acc: the strings not yet in it
RECURSIVE Unique(_, _)
Unique(ln, acc) ==
    IF ln = <<>> THEN acc
    ELSE IF IsNumeric(Head(ln)) THEN Unique(Tail(ln), acc)
    ELSE IF \E i \in 1..Len(acc) : acc[i] = Head(ln) THEN Unique(Tail(ln), acc)
    ELSE Unique(Tail(ln), Append(acc, Head(ln)))

\* the body of __filter_tokens' loop for one line
FilterTokensLine(ln) ==
    Append(Unique(ln, <<>>), Num(Smallest(ln, smallest_number_init)))

\* __filter_tokens(lines)
FilterTokens(d) ==
    [i \in 1..Len(d) |-> [key |-> d[i].key, line |-> FilterTokensLine(d[i].line)]]

\* json[k] = token
Put(json, k, token) ==
    [x \in DOMAIN json \cup {k} |-> IF x = k THEN token ELSE json[x]]

\* the field a token is stored under
FieldOf(token) ==
    IF IsNumeric(token) THEN "amount"
    ELSE IF date_pattern(token.str) THEN "date"
    ELSE "text"

\* BuildRecord keeping the first token of each field instead of the last
RECURSIVE BuildRecordFirstWins(_, _)
BuildRecordFirstWins(ln, json) ==
    IF ln = <<>> THEN json
    ELSE IF FieldOf(Head(ln)) \in DOMAIN json
    THEN BuildRecordFirstWins(Tail(ln), json)
    ELSE BuildRecordFirstWins(Tail(ln), Put(json, FieldOf(Head(ln)), Head(ln)))

\* the record of one line: json after the tokens of ln, starting from json
RECURSIVE BuildRecord(_, _)
BuildRecord(ln, json) ==
    IF ln = <<>> THEN json
    ELSE BuildRecord(Tail(ln), Put(json, FieldOf(Head(ln)), Head(ln)))

EmptyJson == [x \in {} |-> Text(<<>>)]

\* __transform_to_json(lines)
TransformToJson(d) == [i \in 1..Len(d) |-> BuildRecord(d[i].line, EmptyJson)]

(***************************************************************************)
(* Line Grouper                                                            *)
(***************************************************************************)
\* str(n) for an integer n >= 0
RECURSIVE StrInt(_)
StrInt(n) ==
    IF n < 10 THEN <<DigitChars[n + 1]>>
    ELSE StrInt(n \div 10) \o <<DigitChars[(n % 10) + 1]>>

\* str(y0) for the float y0 = t / 10
StrFloat(t) == StrInt(t \div 10) \o <<".">> \o <<DigitChars[(t % 10) + 1]>>

\* the index without the "L" between the page and the offset
IndexNoSeparator(page_num, y0) == <<"P">> \o StrInt(page_num) \o StrFloat(y0)

\* index = "P" + str(page_num) + "L" + str(y0)
Index(page_num, y0) == <<"P">> \o StrInt(page_num) \o <<"L">> \o StrFloat(y0)

\* line.text or line.find(".//LTTextBoxHorizontal").text; a missing text is <<>>
TextElement(el) == IF el.text # <<>> THEN el.text ELSE el.box.text

\* find() returned None and .text raises AttributeError
TextElementRaises(el) == el.text = <<>> /\ ~el.box.present

\* lines after "if index in lines: append, else: create"
AddFragment(d, index, text_element) ==
    IF \E i \in 1..Len(d) : d[i].key = index
    THEN [i \in 1..Len(d) |->
            IF d[i].key = index
            THEN [d[i] EXCEPT !.line = Append(@, Text(text_element))]
            ELSE d[i]]
    ELSE Append(d, [key |-> index, line |-> <<Text(text_element)>>])

\* the inner loop over one page's LTTextLineHorizontal elements
RECURSIVE WalkLines(_, _, _)
WalkLines(page_num, els, d) ==
    IF els = <<>> THEN d
    ELSE WalkLines(page_num, Tail(els),
                   AddFragment(d, Index(page_num, Head(els).y0),
                               TextElement(Head(els))))

\* the outer loop over the LTPage elements
RECURSIVE WalkPages(_, _)
WalkPages(pages, d) ==
    IF pages = <<>> THEN d
    ELSE WalkPages(Tail(pages), WalkLines(Head(pages).pageid, Head(pages).els, d))

ExtractLinesRaises(pages) ==
    \E p \in 1..Len(pages) : \E i \in 1..Len(pages[p].els) :
        TextElementRaises(pages[p].els[i])

\* __extract_lines(xmlFilename), when it returns
ExtractLines(pages) == WalkPages(pages, <<>>)

(***************************************************************************)
(* Inputs                                                                  *)
(***************************************************************************)
\* the fragment "Gjensidige Forsikring, D "
FText ==
    <<"G", "j", "e", "n", "s", "i", "d", "i", "g", "e", " ", "F", "o", "r",
      "s", "i", "k", "r", "i", "n", "g", ",", " ", "D", " ">>

\* the fragment "Netto "
FNetto ==
    <<"N", "e", "t", "t", "o", " ">>

\* the fragment "03.10 "
FDate ==
    <<"0", "3", ".", "1", "0", " ">>

\* the fragment "494,42 - "
FDebit ==
    <<"4", "9", "4", ",", "4", "2", " ", "-", " ">>

\* the fragment "3.291,68 "
FSaldo ==
    <<"3", ".", "2", "9", "1", ",", "6", "8", " ">>

\* the fragment "+ "
FPlus ==
    <<"+", " ">>

\* the fragment "200.000.000.000.000.000.000" (2e20, above 10**20)
FHuge ==
    <<"2", "0", "0", ".", "0", "0", "0", ".", "0", "0", "0", ".", "0",
    "0", "0", ".", "0", "0", "0", ".", "0", "0", "0", ".", "0", "0", "0">>

\* the fragment "Indsat "
FHeader ==
    <<"I", "n", "d", "s", "a", "t", " ">>

\* the fragment "1,00"
FOne ==
    <<"1", ",", "0", "0">>

\* the sequences over S of length a..b
SeqsOf(S, a, b) == UNION {[1..k -> S] : k \in a..b}

AsLine(fragments) == [i \in 1..Len(fragments) |-> Text(fragments[i])]

NoLines == <<>>

(***************************************************************************)
(* SpecGroup: the Line Grouper on the XML tree                             *)
(***************************************************************************)
MaxEls == 2

PageIds == {1, 11}

\* y0 in tenths: 1.0 and 11.0
Y0s == {10, 110}

\* an LTTextLineHorizontal: its own text (which wins over a nested text box),
\* else the text of a nested text box, else neither
Contents ==
    {[text |-> <<"a">>, box |-> [present |-> TRUE, text |-> <<"c">>]],
     [text |-> <<>>, box |-> [present |-> TRUE, text |-> <<"c">>]],
     [text |-> <<>>, box |-> [present |-> FALSE, text |-> <<>>]]}

Elements == {[y0 |-> y, text |-> c.text, box |-> c.box] : y \in Y0s, c \in Contents}

\* an LTPage with up to MaxEls lines
Pages == {[pageid |-> p, els |-> e] : p \in PageIds, e \in SeqsOf(Elements, 0, MaxEls)}

\* a tree of up to two pages
InitGroup ==
    /\ \E k \in 0..2 : \E t \in [1..k -> Pages] : xml = [i \in 1..k |-> t[i]]
    /\ pc = "extract_lines"
    /\ lines = NoLines
    /\ data = <<>>
    /\ grouped = NoLines
    /\ raw = <<>>
    /\ line = <<>>
    /\ calls = <<>>

\* lines = self.__extract_lines("kud.xml")
ExtractLinesStep ==
    /\ pc = "extract_lines"
    /\ IF ExtractLinesRaises(xml)
       THEN pc' = "error" /\ UNCHANGED lines
       ELSE pc' = "grouped" /\ lines' = ExtractLines(xml)
    /\ UNCHANGED <<xml, data, grouped, raw, line, calls>>

NextGroup == ExtractLinesStep

SpecGroup == InitGroup /\ [][NextGroup]_vars

(***************************************************************************)
(* Spec: process_pdf from the grouped lines on                             *)
(***************************************************************************)
MaxFrags == 4

Pool == {FNetto, FHeader, FDate, FDebit, FPlus, FHuge}

\* the row of the statement that the docstring of __extract_lines shows
DocRow == <<FDebit, FSaldo, FPlus, FText, FDate, FDate>>

\* a header row and a row of two numbers
OtherRows == {AsLine(<<FHeader>>), AsLine(<<FOne, FDebit>>)}

Key1 == Index(1, 4684)

Key2 == Index(1, 5030)

\* the grouped lines: the statement row r alone, or with another row after or
\* before it
GroupedWith(r) ==
    \E o \in OtherRows :
        \/ grouped = <<[key |-> Key1, line |-> r]>>
        \/ grouped = <<[key |-> Key1, line |-> r], [key |-> Key2, line |-> o]>>
        \/ grouped = <<[key |-> Key2, line |-> o], [key |-> Key1, line |-> r]>>

\* the statement row: up to MaxFrags fragments of the pool, or the documented one
Init ==
    /\ \/ \E k \in 1..MaxFrags : \E f \in [1..k -> Pool] : GroupedWith(AsLine(f))
       \/ GroupedWith(AsLine(DocRow))
    /\ lines = grouped
    /\ pc = "clean_lines"
    /\ data = <<>>
    /\ xml = <<>>
    /\ raw = <<>>
    /\ line = <<>>
    /\ calls = <<>>

\* lines = self.__clean_lines(lines)
CleanLinesStep ==
    /\ pc = "clean_lines"
    /\ lines' = CleanLines(lines)
    /\ pc' = "filter_lines"
    /\ UNCHANGED <<xml, data, grouped, raw, line, calls>>

\* lines = self.__filter_lines(lines)
FilterLinesStep ==
    /\ pc = "filter_lines"
    /\ lines' = FilterLines(lines)
    /\ pc' = "filter_tokens"
    /\ UNCHANGED <<xml, data, grouped, raw, line, calls>>

\* lines = self.__filter_tokens(lines)
FilterTokensStep ==
    /\ pc = "filter_tokens"
    /\ lines' = FilterTokens(lines)
    /\ pc' = "transform_to_json"
    /\ UNCHANGED <<xml, data, grouped, raw, line, calls>>

\* data = self.__transform_to_json(lines); return data
TransformToJsonStep ==
    /\ pc = "transform_to_json"
    /\ data' = TransformToJson(lines)
    /\ pc' = "done"
    /\ UNCHANGED <<xml, lines, grouped, raw, line, calls>>

Next ==
    \/ CleanLinesStep
    \/ FilterLinesStep
    \/ FilterTokensStep
    \/ TransformToJsonStep

Spec == Init /\ [][Next]_vars

(***************************************************************************)
(* SpecNorm: the passes of __clean_lines on one line, in the loop's order  *)
(***************************************************************************)
MaxCore == 5

CoreChars == {"0", "1", ".", ","}

Heads == {<<>>, <<" ">>}

Tails == {<<>>, <<" ">>, <<"-">>, <<" ", "-">>, <<" ", "-", " ">>,
          <<" ", " ", "-">>, <<"+">>, <<" ", "+">>, <<"x">>}

MaxNormFrags == 3

\* one fragment (optional space, up to MaxCore digits and separators, a tail), or
\* a row of up to MaxNormFrags fragments of the pool, or the documented row
InitNorm ==
    /\ \/ \E h \in Heads : \E t \in Tails :
          \E k \in 0..MaxCore : \E c \in [1..k -> CoreChars] :
              raw = AsLine(<<h \o c \o t>>)
       \/ \E k \in 1..MaxNormFrags : \E f \in [1..k -> Pool] : raw = AsLine(f)
       \/ raw = AsLine(DocRow)
    /\ line = raw
    /\ pc = "parse_numbers"
    /\ xml = <<>>
    /\ lines = NoLines
    /\ data = <<>>
    /\ grouped = NoLines
    /\ calls = <<>>

\* lines[key] = self.__parse_numbers(lines[key])
ParseNumbersStep ==
    /\ pc = "parse_numbers"
    /\ IF ParseNumbersRaises(line)
       THEN pc' = "error" /\ UNCHANGED line
       ELSE pc' = "clean_date" /\ line' = ParseNumbers(line)
    /\ UNCHANGED <<xml, lines, data, grouped, raw, calls>>

\* lines[key] = self.__clean_date(lines[key])
CleanDateStep ==
    /\ pc = "clean_date"
    /\ line' = CleanDate(line)
    /\ pc' = "remove_useless_tokens"
    /\ UNCHANGED <<xml, lines, data, grouped, raw, calls>>

\* lines[key] = self.__remove_useless_tokens(lines[key])
RemoveUselessTokensStep ==
    /\ pc = "remove_useless_tokens"
    /\ line' = RemoveUselessTokens(line)
    /\ pc' = "clean_text"
    /\ UNCHANGED <<xml, lines, data, grouped, raw, calls>>

\* lines[key] = self.__clean_text(lines[key])
CleanTextStep ==
    /\ pc = "clean_text"
    /\ line' = CleanText(line)
    /\ pc' = "cleaned"
    /\ UNCHANGED <<xml, lines, data, grouped, raw, calls>>

NextNorm ==
    \/ ParseNumbersStep
    \/ CleanDateStep
    \/ RemoveUselessTokensStep
    \/ CleanTextStep

SpecNorm == InitNorm /\ [][NextNorm]_vars

(***************************************************************************)
(* SpecPass: the passes called one after another in any order, each on the *)
(* line the previous one returned                                          *)
(***************************************************************************)
MaxCalls == 2

MaxPassFrags == 2

\* a row of up to MaxPassFrags fragments of the pool
InitPass ==
    /\ \E k \in 1..MaxPassFrags : \E f \in [1..k -> Pool] : raw = AsLine(f)
    /\ line = raw
    /\ calls = <<>>
    /\ pc = "ready"
    /\ xml = <<>>
    /\ lines = NoLines
    /\ data = <<>>
    /\ grouped = NoLines

CanCall == pc = "ready" /\ Len(calls) < MaxCalls

\* self.__parse_numbers(line)
CallParseNumbers ==
    /\ CanCall
    /\ calls' = Append(calls, "parse_numbers")
    /\ IF ParseNumbersRaises(line)
       THEN pc' = "error" /\ UNCHANGED line
       ELSE pc' = "ready" /\ line' = ParseNumbers(line)
    /\ UNCHANGED <<xml, lines, data, grouped, raw>>

\* self.__clean_date(line)
CallCleanDate ==
    /\ CanCall
    /\ calls' = Append(calls, "clean_date")
    /\ line' = CleanDate(line)
    /\ UNCHANGED <<pc, xml, lines, data, grouped, raw>>

\* self.__remove_useless_tokens(line)
CallRemoveUselessTokens ==
    /\ CanCall
    /\ calls' = Append(calls, "remove_useless_tokens")
    /\ line' = RemoveUselessTokens(line)
    /\ UNCHANGED <<pc, xml, lines, data, grouped, raw>>

\* self.__clean_text(line)
CallCleanText ==
    /\ CanCall
    /\ calls' = Append(calls, "clean_text")
    /\ line' = CleanText(line)
    /\ UNCHANGED <<pc, xml, lines, data, grouped, raw>>

NextPass ==
    \/ CallParseNumbers
    \/ CallCleanDate
    \/ CallRemoveUselessTokens
    \/ CallCleanText

SpecPass == InitPass /\ [][NextPass]_vars

(***************************************************************************)
(* The grammars as the specification words them, for the properties        *)
(***************************************************************************)
\* 1-3 digits, groups of "." plus exactly 3 digits, optional "," plus 2 digits,
\* optional single space, optional trailing "+" or "-"
DanishNumber(f) ==
    \E n \in 1..3 : \E g \in 0..(Len(f) \div 4) :
    \E c \in {0, 1} : \E sp \in {0, 1} : \E sg \in {0, 1} :
        /\ Len(f) = n + 4 * g + 3 * c + sp + sg
        /\ \A i \in 1..n : IsDigit(f[i])
        /\ \A j \in 0..(g - 1) :
              /\ f[n + 4 * j + 1] = "."
              /\ \A i \in 2..4 : IsDigit(f[n + 4 * j + i])
        /\ c = 1 => /\ f[n + 4 * g + 1] = ","
                    /\ IsDigit(f[n + 4 * g + 2])
                    /\ IsDigit(f[n + 4 * g + 3])
        /\ sp = 1 => IsSpace(f[n + 4 * g + 3 * c + 1])
        /\ sg = 1 => f[Len(f)] \in {"+", "-"}

\* the digits of f before position n, as numbers
RECURSIVE DigitsBefore(_, _)
DigitsBefore(f, n) ==
    IF n <= 1 THEN <<>>
    ELSE DigitsBefore(f, n - 1)
         \o (IF IsDigit(f[n - 1]) THEN <<DigitVal(f[n - 1])>> ELSE <<>>)

\* where the decimal comma of f is, or one past the numeric part when it has none
CommaAt(f) ==
    IF \E i \in 1..Len(f) : f[i] = ","
    THEN CHOOSE i \in 1..Len(f) : f[i] = ","
    ELSE Len(f) + 1

\* the value the digit string of a Danish number reads as: dots removed, the comma
\* as the decimal point
ReadsAs(f, x) ==
    /\ x.ip = DropLeadingZeros(DigitsBefore(f, CommaAt(f)))
    /\ x.fp = IF CommaAt(f) > Len(f) THEN <<>>
              ELSE DropTrailingZeros(<<DigitVal(f[CommaAt(f) + 1]),
                                       DigitVal(f[CommaAt(f) + 2])>>)

\* two digits, a dot, two digits, with optional surrounding whitespace
DateShape(f) ==
    LET t == Strip(f)
    IN  /\ Len(t) = 5
        /\ IsDigit(t[1]) /\ IsDigit(t[2]) /\ t[3] = "." /\ IsDigit(t[4]) /\ IsDigit(t[5])

\* only a "+" sign, with optional surrounding whitespace
PlusOnly(f) == Strip(f) = <<"+">>

Count(ln, P(_)) == Cardinality({i \in 1..Len(ln) : P(ln[i])})

(***************************************************************************)
(* C4  Number parsing                                                      *)
(***************************************************************************)
\* what C4 says of fragment f and the token tok that __parse_numbers returns for
\* it, with the grammar applied to m (the fragment, or the fragment stripped)
ParsedAsClaimed(f, m, tok) ==
    IF DanishNumber(m)
    THEN /\ tok.isnum
         /\ ReadsAs(m, tok.num)
         /\ tok.num.neg <=> (m[Len(m)] = "-")
    ELSE tok = Text(f)

\* C4 as claimed: every fragment that matches the Danish number grammar becomes
\* the number its digits read as, negative exactly when the trailing sign is "-",
\* and every fragment that does not match is passed through unchanged as text.
C4_AsClaimed ==
    pc = "clean_date" =>
        \A i \in 1..Len(raw) : ParsedAsClaimed(raw[i].str, raw[i].str, line[i])

\* C4 amended: the grammar is applied to the fragment with its leading and
\* trailing whitespace stripped.  Every fragment whose stripped form matches the
\* Danish number grammar becomes the number its digits read as, negative exactly
\* when the trailing sign is "-"; every fragment whose stripped form does not
\* match is passed through unchanged as text.
C4_Parse ==
    pc = "clean_date" =>
        /\ Len(line) = Len(raw)
        /\ \A i \in 1..Len(raw) :
              ParsedAsClaimed(raw[i].str, Strip(raw[i].str), line[i])

\* "494,42 - " has been parsed to -494.42
C4_Witness ==
    /\ pc = "clean_date"
    /\ raw = AsLine(<<FDebit>>)
    /\ line = <<Num([neg |-> TRUE, ip |-> <<4, 9, 4>>, fp |-> <<4, 2>>])>>

(***************************************************************************)
(* C7  Dates are never numbers                                             *)
(***************************************************************************)
IsDateText(tok) == ~tok.isnum /\ DateShape(tok.str)

\* C7: no fragment of the shape DD.MM satisfies the number grammar, none is ever
\* a numeric token, and after the Token Normalizer each is a text token that
\* matches the date grammar, with no surrounding whitespace.
C7_DatesStayDates ==
    /\ \A i \in 1..Len(raw) :
          DateShape(raw[i].str) =>
              /\ ~number_pattern(raw[i].str)
              /\ ~number_pattern(Strip(raw[i].str))
    /\ pc # "error" => Count(line, IsDateText) = Count(raw, IsDateText)
    /\ pc = "cleaned" =>
          \A j \in 1..Len(line) :
              IsDateText(line[j]) =>
                  /\ date_pattern(line[j].str)
                  /\ Len(line[j].str) = 5

\* " 10.01 " has gone through the Token Normalizer and is the text "10.01"
C7_Witness ==
    /\ pc = "cleaned"
    /\ raw = AsLine(<<<<" ", "1", "0", ".", "0", "1", " ">>>>)
    /\ line = <<Text(<<"1", "0", ".", "0", "1">>)>>

(***************************************************************************)
(* C8  Decorative-token removal                                            *)
(***************************************************************************)
IsPlusFragment(tok) == ~tok.isnum /\ PlusOnly(tok.str)

IsNumberFragment(tok) == ~tok.isnum /\ DanishNumber(Strip(tok.str))

\* C8: once Decorative-token removal has run, so before and after Text
\* tokenization, the line holds one token for each fragment that is not a lone
\* "+" and none for a lone "+", wherever it stood, and it holds one numeric
\* token for each number fragment: the pass removes no number.
C8_PlusRemoved ==
    pc \in {"clean_text", "cleaned"} =>
        /\ Len(line) = Len(raw) - Count(raw, IsPlusFragment)
        /\ Count(line, IsPlusFragment) = 0
        /\ Count(line, IsNumeric) = Count(raw, IsNumberFragment)

\* a lone "+ " between a number and a text has left no token
C8_Witness ==
    /\ pc = "cleaned"
    /\ raw = AsLine(<<FDebit, FPlus, FNetto>>)
    /\ Len(line) = 2
    /\ line[2] = Text(<<"N", "e", "t", "t", "o">>)

(***************************************************************************)
(* C10  Number parsing of a partially-typed line                           *)
(***************************************************************************)
\* C10 as claimed: __parse_numbers completes without error on a line that
\* already holds numeric tokens, and returns them unchanged.
C10_AsClaimed ==
    (calls # <<>> /\ calls[Len(calls)] = "parse_numbers") => pc # "error"

(***************************************************************************)
(* C6  Line Grouper                                                        *)
(***************************************************************************)
\* the horizontal-line elements in the order the walk meets them
RECURSIVE Walked(_)
Walked(pages) ==
    IF pages = <<>> THEN <<>>
    ELSE [i \in 1..Len(Head(pages).els) |->
            [pageid |-> Head(pages).pageid,
             y0 |-> Head(pages).els[i].y0,
             text |-> IF Head(pages).els[i].text # <<>>
                      THEN Head(pages).els[i].text
                      ELSE Head(pages).els[i].box.text]]
         \o Walked(Tail(pages))

\* the texts of the walked elements at (page id, y0), in the order met
RECURSIVE TextsAt(_, _, _)
TextsAt(w, p, y) ==
    IF w = <<>> THEN <<>>
    ELSE (IF Head(w).pageid = p /\ Head(w).y0 = y THEN <<Text(Head(w).text)>> ELSE <<>>)
         \o TextsAt(Tail(w), p, y)

PairsOf(w) == {<<w[i].pageid, w[i].y0>> : i \in 1..Len(w)}

\* C6: the result has exactly one entry per distinct (page id, y0) pair among the
\* walked elements, no two entries share a key, and for each pair one entry holds
\* the texts of all the elements with that pair, and only those, in the order
\* they were met.
C6_OneEntryPerPair ==
    pc = "grouped" =>
        LET w == Walked(xml)
        IN  /\ Len(lines) = Cardinality(PairsOf(w))
            /\ \A i, j \in 1..Len(lines) : lines[i].key = lines[j].key => i = j
            /\ \A pr \in PairsOf(w) :
                  \E i \in 1..Len(lines) : lines[i].line = TextsAt(w, pr[1], pr[2])

\* two elements of page 1 at y0 1.0 separated by one at 11.0 share an entry, and
\* the one between them has its own
C6_Witness ==
    /\ pc = "grouped"
    /\ Len(xml) = 2
    /\ Len(lines) = 2
    /\ Len(lines[1].line) = 2
    /\ lines[1].key = <<"P", "1", "L", "1", ".", "0">>
    /\ lines[2].key = <<"P", "1", "L", "1", "1", ".", "0">>
    /\ Len(xml[1].els) = 2

(***************************************************************************)
(* C1, C5  Token Filter                                                    *)
(***************************************************************************)
\* x is the algebraic minimum of the numeric tokens of ln
IsMinimumOf(x, ln) ==
    /\ \E j \in 1..Len(ln) : ln[j].isnum /\ NumEq(ln[j].num, x)
    /\ \A j \in 1..Len(ln) : ln[j].isnum => ~NumLess(ln[j].num, x)

\* C1 as claimed: on every line given to __filter_tokens, whatever the magnitude
\* of its numbers, the output holds exactly one numeric token, it is the last
\* element, and it equals the minimum of the numeric tokens of the input line.
C1_AsClaimed ==
    [][pc = "filter_tokens" =>
        /\ Len(lines') = Len(lines)
        /\ \A i \in 1..Len(lines) :
              LET out == lines'[i].line
              IN  /\ Count(out, IsNumeric) = 1
                  /\ out[Len(out)].isnum
                  /\ IsMinimumOf(out[Len(out)].num, lines[i].line)]_vars

IsText(tok) == ~tok.isnum

\* the text tokens of ln, in order
TextsOf(ln) == SelectSeq(ln, IsText)

FirstAt(ln, tok) == CHOOSE i \in 1..Len(ln) : ln[i] = tok /\ \A j \in 1..(i - 1) : ln[j] # tok

\* C5: in the Token Filter's output the text tokens hold no two equal strings,
\* hold every distinct text string of the input line and no other, and stand in
\* the order of their first occurrence in the input line.
C5_StableDedup ==
    [][pc = "filter_tokens" =>
        /\ Len(lines') = Len(lines)
        /\ \A i \in 1..Len(lines) :
              LET out == TextsOf(lines'[i].line)
                  inp == TextsOf(lines[i].line)
              IN  /\ \A a, b \in 1..Len(out) : out[a] = out[b] => a = b
                  /\ {out[a] : a \in 1..Len(out)} = {inp[a] : a \in 1..Len(inp)}
                  /\ \A a, b \in 1..Len(out) :
                        a < b => FirstAt(inp, out[a]) < FirstAt(inp, out[b])]_vars

\* "Netto ", "Netto " and two numbers have left the Token Filter as one "Netto"
\* and the smaller number
C5_Witness ==
    /\ pc = "transform_to_json"
    /\ grouped = <<[key |-> Key1, line |-> AsLine(<<FNetto, FNetto, FDebit, FHuge>>)]>>
    /\ lines = <<[key |-> Key1,
                  line |-> <<Text(<<"N", "e", "t", "t", "o">>),
                             Num([neg |-> TRUE, ip |-> <<4, 9, 4>>, fp |-> <<4, 2>>])>>]>>

(***************************************************************************)
(* C9  Line Filter                                                         *)
(***************************************************************************)
\* C9: the Line Filter applied to its own output returns it unchanged: the same
\* keys, in the same order, with the same token lists.
C9_FilterIdempotent ==
    pc = "filter_tokens" => FilterLines(lines) = lines

\* the filter has dropped the header line and kept the row of two numbers
C9_Witness ==
    /\ pc = "filter_tokens"
    /\ Len(grouped) = 2
    /\ grouped[1].line = AsLine(<<FHeader>>)
    /\ Len(lines) = 1
    /\ lines[1].key = Key2
    /\ Len(lines[1].line) = 2

(***************************************************************************)
(* C2  One record per line of at least two numbers                         *)
(***************************************************************************)
\* a fragment that the Token Normalizer leaves as a description
IsDescription(tok) ==
    /\ ~IsNumberFragment(tok)
    /\ ~IsPlusFragment(tok)
    /\ ~DateShape(tok.str)

\* the grouped lines that hold at least two number fragments, in order
Survivors == SelectSeq(grouped, LAMBDA e : Count(e.line, IsNumberFragment) >= 2)

\* C2: the output holds exactly one record, in order, for each grouped line whose
\* fragments include at least two numbers and none for any other line; each
\* record has an amount, and a text exactly when its line has a description
\* fragment, so a line of numbers alone still gives a record.
C2_OneRecordPerSurvivor ==
    pc = "done" =>
        LET kept == Survivors
        IN  /\ Len(data) = Len(kept)
            /\ \A k \in 1..Len(data) :
                  /\ "amount" \in DOMAIN data[k]
                  /\ "text" \in DOMAIN data[k] <=> Count(kept[k].line, IsDescription) > 0
                  /\ "date" \in DOMAIN data[k] <=> Count(kept[k].line, IsDateText) > 0

\* a header line is dropped and a line of two numbers gives a record with an
\* amount and no text
C2_Witness ==
    /\ pc = "done"
    /\ Len(grouped) = 2
    /\ grouped[1].line = AsLine(<<FHeader>>)
    /\ grouped[2].line = AsLine(<<FOne, FDebit>>)
    /\ Len(data) = 1
    /\ DOMAIN data[1] = {"amount"}

(***************************************************************************)
(* C3  Record Builder                                                      *)
(***************************************************************************)
\* \d{2}\.\d{2} and optional trailing whitespace
DateGrammar(s) ==
    /\ Len(s) >= 5
    /\ IsDigit(s[1]) /\ IsDigit(s[2]) /\ s[3] = "." /\ IsDigit(s[4]) /\ IsDigit(s[5])
    /\ \A i \in 6..Len(s) : IsSpace(s[i])

DateTokens(ln) == {i \in 1..Len(ln) : ~ln[i].isnum /\ DateGrammar(ln[i].str)}

OtherTextTokens(ln) == {i \in 1..Len(ln) : ~ln[i].isnum /\ ~DateGrammar(ln[i].str)}

NumericTokens(ln) == {i \in 1..Len(ln) : ln[i].isnum}

Last(S) == CHOOSE i \in S : \A j \in S : j <= i

\* C3: the record of a cleaned line has its numeric token as amount; a text token
\* matching the date grammar as date, and no date when the line has none; the
\* last text token not matching the date grammar as text, and no text when the
\* line has none.
C3_RecordFields ==
    pc = "done" =>
        /\ Len(data) = Len(lines)
        /\ \A k \in 1..Len(lines) :
              LET ln == lines[k].line
                  rec == data[k]
              IN  /\ Cardinality(NumericTokens(ln)) = 1
                  /\ DOMAIN rec \subseteq {"amount", "date", "text"}
                  /\ "amount" \in DOMAIN rec
                  /\ rec["amount"] = ln[Last(NumericTokens(ln))]
                  /\ IF DateTokens(ln) = {} THEN "date" \notin DOMAIN rec
                     ELSE /\ "date" \in DOMAIN rec
                          /\ \E i \in DateTokens(ln) : rec["date"] = ln[i]
                  /\ IF OtherTextTokens(ln) = {} THEN "text" \notin DOMAIN rec
                     ELSE /\ "text" \in DOMAIN rec
                          /\ rec["text"] = ln[Last(OtherTextTokens(ln))]

\* a line with the texts "Netto" and "Indsat" gives a record whose text is the
\* later one, "Indsat"
C3_Witness ==
    /\ pc = "done"
    /\ grouped = <<[key |-> Key1, line |-> AsLine(<<FNetto, FHeader, FDebit, FHuge>>)]>>
    /\ Len(data) = 1
    /\ DOMAIN data[1] = {"amount", "text"}
    /\ data[1]["text"] = Text(<<"I", "n", "d", "s", "a", "t">>)
    /\ data[1]["amount"] = Num([neg |-> TRUE, ip |-> <<4, 9, 4>>, fp |-> <<4, 2>>])

====
